---- MODULE Spec2Model ----
(***************************************************************************)
(* Browser client of the OCR service (mistral-pdf-convert).                *)
(*                                                                         *)
(* Two state machines are modelled over one set of variables:              *)
(*   Spec     the page script src/front/script.js: the file, checkbox and  *)
(*            submit handlers, the fetch / response.json() promise chain,  *)
(*            renderMarkdown and the download button it creates;           *)
(*   SimSpec  the submit logic of src/__tests__/frontend.test.js           *)
(*            (simulateFormSubmit with the showResult / showError /        *)
(*            showLoading collaborators of its beforeEach block).          *)
(* JavaScript runs each handler and each promise continuation to           *)
(* completion, so an action is one such run; the suspension points are the *)
(* pending fetch and the pending response.json().                          *)
(***************************************************************************)
EXTENDS Integers, Sequences, FiniteSets, TLC

\* ------------------------------------------------------------- bounds
\* submit events delivered to the page (script.js) in one run
MaxSubmits == 2
\* clicks on a download button in one run
MaxClicks == 1

\* ------------------------------------------------------------- values
\* An optional JavaScript value: undefined is <<>>, a present value v is <<v>>.
None == << >>
Some(v) == << v >>
IsPresent(o) == Len(o) > 0
Get(o) == o[1]

\* form.apiKey.value as the user may have typed it
ApiKeys == {"", "k1"}
\* fileInput.files: no file selected, or one selected PDF
FileLists == {None, Some("sample.pdf")}
\* markdown texts a backend may return
Texts == {"# Hi", "p1"}

\* ------------------------------------------------ backend responses
\* A parsed JSON body; every field may be missing.
EmptyPayload ==
    [success |-> None, error |-> None, fileName |-> None, text |-> None,
     concatenated_text |-> None, pages |-> None]

\* one element of `pages`
Page(md) == [markdown |-> md, images |-> << >>]

LegacyPayload(t) ==
    [EmptyPayload EXCEPT !.success = Some(TRUE), !.fileName = Some("sample.pdf"),
                         !.text = Some(t)]
ConcatPayload(t) ==
    [EmptyPayload EXCEPT !.success = Some(TRUE), !.fileName = Some("sample.pdf"),
                         !.concatenated_text = Some(t)]
PagesPayload(ps) ==
    [EmptyPayload EXCEPT !.success = Some(TRUE), !.fileName = Some("sample.pdf"),
                         !.pages = Some(ps)]
PagesConcatPayload(ps, t) ==
    [PagesPayload(ps) EXCEPT !.concatenated_text = Some(t)]
NoContentPayload ==
    [EmptyPayload EXCEPT !.success = Some(TRUE), !.fileName = Some("sample.pdf")]
FailurePayload(e) ==
    [EmptyPayload EXCEPT !.success = Some(FALSE), !.error = Some(e)]

TwoPages == << Page(Some("p1")), Page(Some("p2")) >>

\* the failure envelopes of the backend, by HTTP status
ErrorOf(status) ==
    CASE status = 401 -> "API Key de Mistral AI invalida o no autorizada."
      [] status = 422 -> "El campo 'api_key' es requerido."
      [] OTHER        -> "Ocurrio un error inesperado en el servidor."

Statuses == {200, 401, 422}
IsOk(status) == status \in 200..299

\* JSON bodies a response of the given status may carry
PayloadsOf(status) ==
    IF IsOk(status)
    THEN {LegacyPayload(t) : t \in Texts}
         \cup {ConcatPayload("# Hi"), PagesPayload(TwoPages),
               PagesConcatPayload(TwoPages, "p1"), NoContentPayload,
               [LegacyPayload("# Hi") EXCEPT !.success = Some(FALSE)],
               [LegacyPayload("# Hi") EXCEPT !.success = None],
               FailurePayload(ErrorOf(500))}
    ELSE {FailurePayload(ErrorOf(status)),
          [FailurePayload(ErrorOf(status)) EXCEPT !.text = Some("p1")],
          [EmptyPayload EXCEPT !.success = Some(FALSE)]}

\* errors a promise of the chain may reject with
FetchError == "TypeError: Failed to fetch"
JsonError == "SyntaxError: Unexpected token in JSON"
MarkedError == "Error: marked(): input parameter is undefined or null"

VARIABLES
    downloadImages,   \* script.js: the flag toggled by the checkbox
    files,            \* script.js: fileInput.files
    fileButtonText,   \* script.js: fileButton.textContent
    reqs,             \* script.js: the fetch calls issued, in order, with their progress
    contents,         \* script.js: the #contents container
    objectUrls,       \* script.js: object URLs created and not yet revoked
    bodyAnchors,      \* script.js: <a> elements left in document.body
    downloads,        \* script.js: files the browser was asked to download
    clicks,           \* script.js: download-button clicks so far
    submitted,        \* script.js: the form as it stood at each submit event, in order
    calls,            \* test: the simulateFormSubmit invocations, in order
    resultArea,       \* test: #resultArea
    errorArea,        \* test: #errorArea
    loadingDisplay,   \* test: #loadingIndicator style.display
    buttonDisabled    \* test: #processButton disabled

\* the state of the page script and the state of the test's page
scriptVars == << downloadImages, files, fileButtonText, reqs, contents, objectUrls,
                 bodyAnchors, downloads, clicks, submitted >>
simVars == << calls, resultArea, errorArea, loadingDisplay, buttonDisabled >>
vars == << scriptVars, simVars >>

\* --------------------------------------------------------- script.js
\* a FormData.append that stores a File as an unnamed Blob
FormDataBlob(fileList) ==
    IF IsPresent(fileList)
    THEN [kind |-> "file", name |-> "blob"]
    ELSE [kind |-> "string", name |-> "undefined"]

\* FormData.append stores a File as it is and any other value as its string.
FormDataValue(fileList) ==
    IF IsPresent(fileList)
    THEN [kind |-> "file", name |-> Get(fileList)]
    ELSE [kind |-> "string", name |-> "undefined"]

BoolString(b) == IF b THEN "true" ELSE "false"

\* a FormData whose include_images is read from the initial value of the flag
BuildFormDataInitialFlag(apiKey, fileList, flag) ==
    [api_key |-> apiKey, pdf_file |-> FormDataValue(fileList),
     include_images |-> BoolString(FALSE)]

BuildFormData(apiKey, fileList, flag) ==
    [api_key |-> apiKey, pdf_file |-> FormDataValue(fileList),
     include_images |-> BoolString(flag)]

\* marked.parse(text): the markup of a string; throws on undefined or null
MarkedThrows(arg) == ~IsPresent(arg)
MarkedParse(arg) == << "markup", Get(arg) >>

\* the button renderMarkdown creates; its onclick closes over `text`
DownloadButton(arg) == [label |-> "Download Markdown", text |-> arg]

\* a renderMarkdown that keeps a button the container already has
RenderMarkdownKeepingButton(c, arg) ==
    IF MarkedThrows(arg)
    THEN [c EXCEPT !.color = "white"]
    ELSE [color |-> "white", html |-> Some(MarkedParse(arg)),
          children |-> IF c.children = << >> THEN << DownloadButton(arg) >>
                       ELSE c.children]

\* a renderMarkdown that appends the button without replacing the container's content
RenderMarkdownAppending(c, arg) ==
    IF MarkedThrows(arg)
    THEN [c EXCEPT !.color = "white"]
    ELSE [color |-> "white", html |-> Some(MarkedParse(arg)),
          children |-> Append(c.children, DownloadButton(arg))]

\* renderMarkdown(text): the container after the call. The colour is set first;
\* when marked.parse throws, innerHTML and the children are left as they were.
RenderMarkdown(c, arg) ==
    IF MarkedThrows(arg)
    THEN [c EXCEPT !.color = "white"]
    ELSE [color |-> "white", html |-> Some(MarkedParse(arg)),
          children |-> << DownloadButton(arg) >>]

\* the argument the handler passes to renderMarkdown
RenderArgument(result) == result.text

NewRequest(payload) ==
    [payload |-> payload, pc |-> "fetch", status |-> 0, parsed |-> FALSE,
     data |-> EmptyPayload, markedArgs |-> << >>, rendered |-> FALSE,
     caught |-> None]

Init ==
    /\ downloadImages = FALSE
    /\ files = None
    /\ fileButtonText = "Select PDF"
    /\ reqs = << >>
    /\ contents = [color |-> "", html |-> None, children |-> << >>]
    /\ objectUrls = 0
    /\ bodyAnchors = 0
    /\ downloads = << >>
    /\ clicks = 0
    /\ submitted = << >>
    /\ calls = << >>
    /\ resultArea = None
    /\ errorArea = ""
    /\ loadingDisplay = "none"
    /\ buttonDisabled = FALSE

\* fileInput 'change'
FileChange(fileList) ==
    /\ files' = fileList
    /\ fileButtonText' = IF Len(fileList) > 0 THEN fileList[1] ELSE "Select PDF"
    /\ UNCHANGED << downloadImages, reqs, contents, objectUrls, bodyAnchors,
                    downloads, clicks, submitted,
                    simVars >>

\* checkbox 'change'
CheckboxChange ==
    /\ downloadImages' = ~downloadImages
    /\ UNCHANGED << files, fileButtonText, reqs, contents, objectUrls,
                    bodyAnchors, downloads, clicks, submitted,
                    simVars >>

\* form 'submit': builds the FormData and calls fetch
Submit(apiKey) ==
    /\ Len(reqs) < MaxSubmits
    /\ reqs' = Append(reqs, NewRequest(BuildFormData(apiKey, files, downloadImages)))
    /\ submitted' = Append(submitted, [apiKey |-> apiKey, files |-> files,
                                       downloadImages |-> downloadImages])
    /\ UNCHANGED << downloadImages, files, fileButtonText, contents, objectUrls,
                    bodyAnchors, downloads, clicks,
                    simVars >>

\* the .catch handler: console.error('Error:', error)
Catch(r, error) == [r EXCEPT !.pc = "done", !.caught = Some(error)]

\* The error messages handling request r put on the page: .catch is the only error
\* path of the handler and it calls console.error, so the page is given none.
ErrorsShown(r) == << >>

\* a rejection handler that, after logging, issues the same request again
FetchRejectRetrying(i) ==
    /\ reqs[i].pc = "fetch"
    /\ reqs' = Append([reqs EXCEPT ![i] = Catch(@, FetchError)],
                      NewRequest(reqs[i].payload))
    /\ UNCHANGED << downloadImages, files, fileButtonText, contents, objectUrls,
                    bodyAnchors, downloads, clicks, submitted,
                    simVars >>

\* fetch rejects: the chain skips to .catch
FetchReject(i) ==
    /\ reqs[i].pc = "fetch"
    /\ reqs' = [reqs EXCEPT ![i] = Catch(@, FetchError)]
    /\ UNCHANGED << downloadImages, files, fileButtonText, contents, objectUrls,
                    bodyAnchors, downloads, clicks, submitted,
                    simVars >>

\* fetch resolves: the first .then calls response.json()
FetchResolve(i, status) ==
    /\ reqs[i].pc = "fetch"
    /\ reqs' = [reqs EXCEPT ![i] = [@ EXCEPT !.pc = "json", !.status = status]]
    /\ UNCHANGED << downloadImages, files, fileButtonText, contents, objectUrls,
                    bodyAnchors, downloads, clicks, submitted,
                    simVars >>

\* response.json() rejects: the body is not JSON
JsonReject(i) ==
    /\ reqs[i].pc = "json"
    /\ reqs' = [reqs EXCEPT ![i] = Catch(@, JsonError)]
    /\ UNCHANGED << downloadImages, files, fileButtonText, contents, objectUrls,
                    bodyAnchors, downloads, clicks, submitted,
                    simVars >>

\* response.json() resolves: the nested .then renders result.text
JsonResolve(i, result) ==
    /\ reqs[i].pc = "json"
    /\ LET arg == RenderArgument(result)
           r == [reqs[i] EXCEPT !.parsed = TRUE, !.data = result,
                                !.markedArgs = << arg >>]
       IN /\ contents' = RenderMarkdown(contents, arg)
          /\ reqs' = [reqs EXCEPT ![i] =
                        IF MarkedThrows(arg)
                        THEN Catch(r, MarkedError)
                        ELSE [r EXCEPT !.pc = "done", !.rendered = TRUE]]
    /\ UNCHANGED << downloadImages, files, fileButtonText, objectUrls,
                    bodyAnchors, downloads, clicks, submitted,
                    simVars >>

\* btn.onclick: blob, object URL, <a> appended, a.click(), <a> removed, URL revoked.
\* a.click() either returns or throws; nothing after it runs when it throws.
ClickDownload(b, clickThrows) ==
    /\ clicks < MaxClicks
    /\ b \in 1..Len(contents.children)
    /\ clicks' = clicks + 1
    /\ IF clickThrows
       THEN /\ objectUrls' = objectUrls + 1
            /\ bodyAnchors' = bodyAnchors + 1
            /\ UNCHANGED downloads
       ELSE /\ downloads' = Append(downloads,
                [name |-> "output.md", content |-> Get(contents.children[b].text)])
            /\ UNCHANGED << objectUrls, bodyAnchors >>
    /\ UNCHANGED << downloadImages, files, fileButtonText, reqs, contents,
                    submitted, simVars >>

Next ==
    \/ \E f \in FileLists : FileChange(f)
    \/ CheckboxChange
    \/ \E k \in ApiKeys : Submit(k)
    \/ \E i \in 1..Len(reqs) : FetchReject(i)
    \/ \E i \in 1..Len(reqs), s \in Statuses : FetchResolve(i, s)
    \/ \E i \in 1..Len(reqs) : JsonReject(i)
    \/ \E i \in 1..Len(reqs) : \E d \in PayloadsOf(reqs[i].status) : JsonResolve(i, d)
    \/ \E b \in 1..Len(contents.children), t \in BOOLEAN : ClickDownload(b, t)

Spec == Init /\ [][Next]_vars

\* script.js with the form left as it was loaded apart from the key: every submit
\* sends the same form, and the backend answers in every way.
ResponseNext ==
    \/ Submit("k1")
    \/ \E i \in 1..Len(reqs) : FetchReject(i)
    \/ \E i \in 1..Len(reqs), s \in Statuses : FetchResolve(i, s)
    \/ \E i \in 1..Len(reqs) : JsonReject(i)
    \/ \E i \in 1..Len(reqs) : \E d \in PayloadsOf(reqs[i].status) : JsonResolve(i, d)
    \/ \E b \in 1..Len(contents.children), t \in BOOLEAN : ClickDownload(b, t)

ResponseSpec == Init /\ [][ResponseNext]_vars

\* keys typed into the form: none, or one of two different keys
FormKeys == ApiKeys \cup {"k2"}

\* script.js up to the fetch call: the form's handlers, with the requests pending.
FormNext ==
    \/ \E f \in FileLists : FileChange(f)
    \/ CheckboxChange
    \/ \E k \in FormKeys : Submit(k)

FormSpec == Init /\ [][FormNext]_vars

\* ------------------------------------- frontend.test.js: simulateFormSubmit
ValidationMessage == "API Key y archivo PDF son requeridos (validacion de cliente)."
UnknownBackendMessage == "Error desconocido del backend."
NetworkMessage == "Error de red o al contactar el servidor."

\* !apiKey || !pdfFile
ClientInvalid(apiKey, fileList) == apiKey = "" \/ ~IsPresent(fileList)

\* response.ok && data.success
IsSuccess(status, data) == IsOk(status) /\ data.success = Some(TRUE)

\* data.error || 'Error desconocido del backend.'
ErrorMessage(data) ==
    IF IsPresent(data.error) /\ Get(data.error) # ""
    THEN Get(data.error)
    ELSE UnknownBackendMessage

\* what showResult writes into #resultArea
ResultMarkup(fileName, text) == << "Archivo", fileName, "Texto", text >>

NewCall(apiKey, fileList) ==
    [apiKey |-> apiKey, file |-> fileList, pc |-> "start", fetched |-> FALSE,
     status |-> 0, parsed |-> FALSE, data |-> EmptyPayload,
     loadingCalls |-> << >>, resultCalls |-> << >>, errorCalls |-> << >>,
     events |-> << >>]

\* One invocation at work: its own record and the page it writes.
Running(c) ==
    [call |-> c, resultArea |-> resultArea, errorArea |-> errorArea,
     loadingDisplay |-> loadingDisplay, buttonDisabled |-> buttonDisabled]

\* the order in which an invocation does things: e is added to its record
Then(st, e) == [st EXCEPT !.call.events = Append(@, e)]

\* showLoading(isLoading): the mock records the call and sets the indicator and the button
ShowLoading(st, isLoading) ==
    [st EXCEPT !.call.loadingCalls = Append(@, isLoading),
               !.call.events = Append(@, IF isLoading THEN "loading on" ELSE "loading off"),
               !.loadingDisplay = IF isLoading THEN "block" ELSE "none",
               !.buttonDisabled = isLoading]

\* showError(message): the mock records the call, sets #errorArea, empties #resultArea
ShowError(st, message) ==
    [st EXCEPT !.call.errorCalls = Append(@, message),
               !.errorArea = message,
               !.resultArea = None]

\* showResult(fileName, text): the mock records the call, sets #resultArea, empties #errorArea
ShowResult(st, fileName, text) ==
    [st EXCEPT !.call.resultCalls = Append(@, ResultMarkup(fileName, text)),
               !.resultArea = Some(ResultMarkup(fileName, text)),
               !.errorArea = ""]

\* simulateFormSubmit with the finally block left out: it returns with loading on
FinallyOmitted(st) == [st EXCEPT !.call.pc = "done"]

\* the finally block: showLoading(false); the async function then returns
Finally(st) == [ShowLoading(st, FALSE) EXCEPT !.call.pc = "done"]

\* a catch block that also switches loading off itself, before finally does
CatchBlockReleasing(st) == Finally(ShowLoading(ShowError(st, NetworkMessage), FALSE))

\* the catch block, followed by finally
CatchBlock(st) == Finally(ShowError(st, NetworkMessage))

\* the page after a run of invocation code
PageAfter(st) ==
    /\ resultArea' = st.resultArea
    /\ errorArea' = st.errorArea
    /\ loadingDisplay' = st.loadingDisplay
    /\ buttonDisabled' = st.buttonDisabled

\* simulateFormSubmit() up to its first await, or to its early return
SimSubmit(apiKey, fileList) ==
    /\ Len(calls) < MaxSubmits
    /\ LET entered == ShowLoading(Running(NewCall(apiKey, fileList)), TRUE)
           st == IF ClientInvalid(apiKey, fileList)
                 THEN [ShowLoading(ShowError(Then(entered, "invalid"),
                                             ValidationMessage), FALSE)
                         EXCEPT !.call.pc = "done"]
                 ELSE [Then(Then(entered, "validated"), "fetch")
                         EXCEPT !.call.pc = "fetch", !.call.fetched = TRUE]
       IN /\ calls' = Append(calls, st.call)
          /\ PageAfter(st)
    /\ UNCHANGED scriptVars

\* await fetch(...) rejects
SimFetchReject(i) ==
    /\ calls[i].pc = "fetch"
    /\ LET st == CatchBlock(Then(Running(calls[i]), "settled"))
       IN /\ calls' = [calls EXCEPT ![i] = st.call]
          /\ PageAfter(st)
    /\ UNCHANGED scriptVars

\* await fetch(...) resolves; response.json() is called and awaited
SimFetchResolve(i, status) ==
    /\ calls[i].pc = "fetch"
    /\ calls' = [calls EXCEPT ![i] = [@ EXCEPT !.pc = "json", !.status = status,
                                              !.events = Append(@, "settled")]]
    /\ UNCHANGED << resultArea, errorArea, loadingDisplay, buttonDisabled >>
    /\ UNCHANGED scriptVars

\* await response.json() rejects
SimJsonReject(i) ==
    /\ calls[i].pc = "json"
    /\ LET st == CatchBlock(Running(calls[i]))
       IN /\ calls' = [calls EXCEPT ![i] = st.call]
          /\ PageAfter(st)
    /\ UNCHANGED scriptVars

\* await response.json() resolves with data: the outcome branch, then finally
SimJsonResolve(i, data) ==
    /\ calls[i].pc = "json"
    /\ LET got == Running([calls[i] EXCEPT !.parsed = TRUE, !.data = data])
           st == IF IsSuccess(calls[i].status, data)
                 THEN Finally(ShowResult(got, data.fileName, data.text))
                 ELSE Finally(ShowError(got, ErrorMessage(data)))
       IN /\ calls' = [calls EXCEPT ![i] = st.call]
          /\ PageAfter(st)
    /\ UNCHANGED scriptVars

SimNext ==
    \/ \E k \in ApiKeys, f \in FileLists : SimSubmit(k, f)
    \/ \E i \in 1..Len(calls) : SimFetchReject(i)
    \/ \E i \in 1..Len(calls), s \in Statuses : SimFetchResolve(i, s)
    \/ \E i \in 1..Len(calls) : SimJsonReject(i)
    \/ \E i \in 1..Len(calls) : \E d \in PayloadsOf(calls[i].status) : SimJsonResolve(i, d)

SimSpec == Init /\ [][SimNext]_vars

\* The network settles every request and the event loop runs every continuation.
SimFairSpec ==
    /\ SimSpec
    /\ \A i \in 1..MaxSubmits :
          /\ WF_vars(i <= Len(calls)
                     /\ (SimFetchReject(i) \/ \E s \in Statuses : SimFetchResolve(i, s)))
          /\ WF_vars(i <= Len(calls)
                     /\ (SimJsonReject(i)
                         \/ \E d \in PayloadsOf(calls[i].status) : SimJsonResolve(i, d)))

\* ------------------------------------------------------------ claims
\* requests of script.js whose promise chain has not finished
InFlight == {i \in 1..Len(reqs) : reqs[i].pc # "done"}
\* requests of script.js whose promise chain has finished
Settled == {i \in 1..Len(reqs) : reqs[i].pc = "done"}
\* invocations of simulateFormSubmit that have returned
Returned == {i \in 1..Len(calls) : calls[i].pc = "done"}

\* C1: at most one OCR request is in flight at any time: a submit that arrives
\* while an earlier submission has not settled issues no second fetch.
C1_SingleFlight == Cardinality(InFlight) <= 1

\* C2: every submission that enters the loading state leaves it. An invocation that
\* has returned switched loading off last; when every invocation has returned the
\* indicator is hidden and the button enabled; and an invocation waiting for fetch
\* or for the body always comes to return.
C2_LoadingReleased ==
    /\ [](\A i \in Returned :
            /\ calls[i].loadingCalls # << >>
            /\ calls[i].loadingCalls[Len(calls[i].loadingCalls)] = FALSE)
    /\ [](Returned = 1..Len(calls) => loadingDisplay = "none" /\ ~buttonDisabled)
    /\ \A i \in 1..MaxSubmits :
          (i <= Len(calls) /\ calls[i].pc \in {"fetch", "json"})
             ~> (i <= Len(calls) /\ calls[i].pc = "done")

\* C2 witness: one invocation returned after fetch rejected and another after the
\* body failed to parse, both through the loading state, and loading is off.
C2_Witness ==
    /\ \E i \in Returned : calls[i].fetched /\ calls[i].status = 0
                           /\ calls[i].loadingCalls = << TRUE, FALSE >>
    /\ \E i \in Returned : calls[i].status # 0 /\ ~calls[i].parsed
                           /\ calls[i].loadingCalls = << TRUE, FALSE >>
    /\ loadingDisplay = "none"
    /\ ~buttonDisabled

\* C3: marked.parse is never called with an absent (undefined or null) argument,
\* whatever the shape of the payload.
C3_MarkedNeverAbsent ==
    \A i \in 1..Len(reqs) :
        \A k \in 1..Len(reqs[i].markedArgs) : IsPresent(reqs[i].markedArgs[k])

\* C4: a submit with an empty API key or without a selected file issues no fetch:
\* every fetch call carries a non-empty api_key and a file.
C4_NoFetchWhenInvalid ==
    \A i \in 1..Len(reqs) :
        /\ reqs[i].payload.api_key # ""
        /\ reqs[i].payload.pdf_file.kind = "file"

\* C5: for a non-2xx response whose JSON body carries an error string, the page
\* shows exactly that string as the one error, and no result is rendered.
C5_BackendErrorVerbatim ==
    \A i \in Settled :
        (reqs[i].parsed /\ ~IsOk(reqs[i].status) /\ IsPresent(reqs[i].data.error))
            => /\ ErrorsShown(reqs[i]) = << Get(reqs[i].data.error) >>
               /\ ~reqs[i].rendered

\* C6: when fetch rejects, the page shows a network-failure message, no result is
\* rendered, and the rejection is handled.
C6_NetworkFailureShown ==
    \A i \in Settled :
        (reqs[i].status = 0)
            => /\ Len(ErrorsShown(reqs[i])) = 1
               /\ ~reqs[i].rendered
               /\ IsPresent(reqs[i].caught)

\* C7: each submission ends in exactly one of two outcomes: the result shown and no
\* error (exactly when the response is 2xx and success is true), or exactly one error
\* shown and no result.
C7_ExactlyOneOutcome ==
    \A i \in Settled :
        LET good == reqs[i].parsed /\ IsSuccess(reqs[i].status, reqs[i].data)
        IN IF good
           THEN reqs[i].rendered /\ ErrorsShown(reqs[i]) = << >>
           ELSE ~reqs[i].rendered /\ Len(ErrorsShown(reqs[i])) = 1

\* C8: a 2xx response whose body fails to parse, or whose payload has success false
\* or absent, is never rendered as a result; one error is shown, the payload's own
\* error text when it has one.
C8_BadEnvelopeNotRendered ==
    \A i \in Settled :
        (IsOk(reqs[i].status)
         /\ (~reqs[i].parsed \/ reqs[i].data.success # Some(TRUE)))
            => /\ ~reqs[i].rendered
               /\ Len(ErrorsShown(reqs[i])) = 1
               /\ (IsPresent(reqs[i].data.error)
                     => ErrorsShown(reqs[i]) = << Get(reqs[i].data.error) >>)

\* C9: the text carried to rendering and export is concatenated_text when the
\* payload has it and no pages, and text when only the legacy field is present.
C9_NormalizedText ==
    \A i \in Settled :
        LET d == reqs[i].data
        IN reqs[i].parsed /\ d.success = Some(TRUE) =>
            /\ (IsPresent(d.concatenated_text) /\ ~IsPresent(d.pages)
                  => reqs[i].markedArgs = << d.concatenated_text >>)
            /\ (IsPresent(d.text) /\ ~IsPresent(d.concatenated_text)
                /\ ~IsPresent(d.pages)
                  => reqs[i].markedArgs = << d.text >>)

\* C10: when client-side validation fails, loading is never switched on for that
\* submission, and the validation error is surfaced.
C10_NoLoadingOnValidationFailure ==
    \A i \in 1..Len(calls) :
        ClientInvalid(calls[i].apiKey, calls[i].file)
            => /\ calls[i].loadingCalls = << >>
               /\ calls[i].errorCalls = << ValidationMessage >>

C12_FailureKeepsResult ==
    [][\A i \in 1..Len(calls) :
          (/\ calls[i].pc \in {"fetch", "json"}
           /\ calls'[i].pc = "done"
           /\ calls'[i].resultCalls = << >>
           /\ IsPresent(resultArea))
          => resultArea' = resultArea]_vars

\* C13: a non-2xx response whose body cannot be parsed as JSON is reported as an
\* HTTP failure of that status, with a message derived from the status code: the
\* one error shown is not the network-failure message.
C13_UnparseableBodyIsHttpError ==
    \A i \in Returned :
        (calls[i].status # 0 /\ ~IsOk(calls[i].status) /\ ~calls[i].parsed)
        => /\ Len(calls[i].errorCalls) = 1
           /\ calls[i].errorCalls[1] # NetworkMessage

\* C14: rendering is idempotent: rendering a response a second time into the
\* container leaves what the first rendering left, for every response (with a
\* text or without) and every container the page can show; a rendered container holds exactly one
\* download button.
C14_RenderIdempotent ==
    /\ \A arg \in {None} \cup {Some(t) : t \in Texts} :
          LET once == RenderMarkdown(contents, arg)
          IN /\ RenderMarkdown(once, arg) = once
             /\ IsPresent(arg) => Len(once.children) = 1
    /\ IsPresent(contents.html) => Len(contents.children) = 1

\* C14 witness: two submissions received the same text and both were rendered;
\* the container shows that text with one button.
C14_Witness ==
    \E i, j \in Settled :
        /\ i < j
        /\ reqs[i].rendered /\ reqs[j].rendered
        /\ reqs[i].data.text = reqs[j].data.text
        /\ contents.html = Some(MarkedParse(reqs[j].data.text))
        /\ Len(contents.children) = 1

\* C15: when a successful response carries a non-empty `pages` array, the step
\* that handles it renders one block per page, in array order, and leaves the
\* container with a download button exactly when concatenated_text is present
\* (bound to that text), and with none when it is absent.
C15_PagesRenderedInOrder ==
    [][\A i \in 1..Len(reqs) :
          LET d == reqs'[i].data
          IN (/\ reqs[i].pc = "json"
              /\ reqs'[i].pc = "done"
              /\ reqs'[i].parsed
              /\ IsOk(reqs'[i].status)
              /\ d.success = Some(TRUE)
              /\ IsPresent(d.pages)
              /\ Len(Get(d.pages)) > 0)
             => /\ reqs'[i].rendered
                /\ reqs'[i].markedArgs
                     = [k \in 1..Len(Get(d.pages)) |-> Get(d.pages)[k].markdown]
                /\ contents'.children
                     = IF IsPresent(d.concatenated_text)
                       THEN << DownloadButton(d.concatenated_text) >>
                       ELSE << >>]_vars

\* C16: every submit event issues exactly one fetch call, and when the key was
\* non-empty and a file was selected, the FormData sent has api_key equal to the
\* key entered and pdf_file the selected File, under its own name.
C16_ValidPayloadCarriesInputs ==
    /\ Len(reqs) = Len(submitted)
    /\ \A i \in 1..Len(submitted) :
          (submitted[i].apiKey # "" /\ IsPresent(submitted[i].files))
          => /\ reqs[i].payload.api_key = submitted[i].apiKey
             /\ reqs[i].payload.pdf_file
                  = [kind |-> "file", name |-> Get(submitted[i].files)]

\* C16 witness: two submissions with a file selected and different keys were sent.
C16_Witness ==
    \E i, j \in 1..Len(reqs) :
        /\ submitted[i].apiKey = "k1" /\ submitted[j].apiKey = "k2"
        /\ submitted[i].files = Some("sample.pdf")
        /\ submitted[j].files = Some("sample.pdf")
        /\ reqs[i].payload.api_key = "k1" /\ reqs[j].payload.api_key = "k2"

\* the strings a reader of the container sees: the rendered text and the button labels
ViewTexts(c) ==
    (IF IsPresent(c.html) THEN {Get(c.html)[2]} ELSE {})
    \cup {c.children[k].label : k \in 1..Len(c.children)}

\* C17: the step that handles a successful response carrying fileName and text
\* leaves the view showing the file name and the markup of text, with a download
\* button bound to that text; and a download that goes through produces a file
\* whose content is the text of the button clicked.
C17_SuccessShowsNameAndText ==
    [][/\ \A i \in 1..Len(reqs) :
            LET d == reqs'[i].data
            IN (/\ reqs[i].pc = "json"
                /\ reqs'[i].pc = "done"
                /\ reqs'[i].parsed
                /\ IsOk(reqs'[i].status)
                /\ d.success = Some(TRUE)
                /\ IsPresent(d.fileName)
                /\ IsPresent(d.text))
               => /\ contents'.html = Some(MarkedParse(d.text))
                  /\ contents'.children = << DownloadButton(d.text) >>
                  /\ Get(d.fileName) \in ViewTexts(contents')
       /\ Len(downloads') > Len(downloads)
            => \E b \in 1..Len(contents.children) :
                  downloads'[Len(downloads')].content = Get(contents.children[b].text)
      ]_vars

\* C18: every object URL a download action creates is revoked before the action
\* ends, also when a.click() throws: between actions no object URL is outstanding.
C18_ObjectUrlReleased == objectUrls = 0

\* C19: a later rendering supersedes the earlier one: the step in which a
\* response is rendered leaves the container with the markup of that response's
\* text only and with exactly one download button, bound to that text, whatever
\* the container showed before.
C19_LaterResultSupersedes ==
    [][\A i \in 1..Len(reqs) :
          (~reqs[i].rendered /\ reqs'[i].rendered)
          => contents' = [color |-> "white",
                          html |-> Some(MarkedParse(reqs'[i].data.text)),
                          children |-> << DownloadButton(reqs'[i].data.text) >>]
      ]_vars

\* C19 witness: two responses with different texts were rendered one after the
\* other; the container shows one of them, with one button bound to its text.
C19_Witness ==
    \E i, j \in Settled :
        /\ reqs[i].rendered /\ reqs[j].rendered
        /\ reqs[i].data.text # reqs[j].data.text
        /\ contents.html = Some(MarkedParse(reqs[j].data.text))
        /\ contents.children = << DownloadButton(reqs[j].data.text) >>

\* C20: every failure after the fetch call was issued (fetch rejects, json()
\* rejects, or renderMarkdown throws) is caught by the handler of that submission
\* and turned into exactly one error shown by the page.
C20_FailureCaughtAndSurfaced ==
    \A i \in Settled :
        (~reqs[i].rendered)
            => /\ IsPresent(reqs[i].caught)
               /\ Get(reqs[i].caught) \in {FetchError, JsonError, MarkedError}
               /\ Len(ErrorsShown(reqs[i])) = 1

\* C21: requests are single-shot: after every step the number of fetch calls
\* issued equals the number of submit events handled (so never exceeds it), a
\* submit event adds exactly one fetch call, and a step that is not a submit
\* event (a rejection, a response, a rendering failure, a click) adds none.
C21_SingleShot ==
    [][/\ Len(reqs') = Len(submitted')
       /\ Len(reqs') - Len(reqs) = Len(submitted') - Len(submitted)
       /\ Len(reqs') - Len(reqs) \in {0, 1}
       /\ (\E i \in 1..Len(reqs) :
              ~IsPresent(reqs[i].caught) /\ IsPresent(reqs'[i].caught))
          => Len(reqs') = Len(reqs)]_vars

\* C21 witness: two submissions were made and both failed, one by a rejected
\* fetch and one after its response arrived; there are still two fetch calls.
C21_Witness ==
    /\ Len(submitted) = 2
    /\ Len(reqs) = 2
    /\ \E i, j \in Settled :
          /\ reqs[i].caught = Some(FetchError)
          /\ IsPresent(reqs[j].caught)
          /\ reqs[j].caught # Some(FetchError)

\* C22: once every request issued has settled, the container shows the result of
\* the request submitted last, and the download button is bound to its text,
\* whatever the order in which the responses arrived: a response to an older
\* submission never replaces the rendered result of a newer one.
C22_LastSubmittedWins ==
    (/\ Len(reqs) > 0
     /\ InFlight = {}
     /\ reqs[Len(reqs)].rendered)
    => /\ contents.html = Some(MarkedParse(reqs[Len(reqs)].data.text))
       /\ contents.children = << DownloadButton(reqs[Len(reqs)].data.text) >>

\* C23: in every state the loading UI is on (indicator shown and submit button
\* disabled) exactly when some invocation has a request in flight; an invocation
\* that completes does not switch loading off while another is still waiting.
C23_LoadingIffInFlight ==
    (loadingDisplay = "block" /\ buttonDisabled)
    <=> (\E i \in 1..Len(calls) : calls[i].pc \in {"fetch", "json"})

\* C24: the flag starts false; a step that changes it flips it and touches no
\* request; a submit event sends include_images as the string of the flag as it
\* stands at that event and leaves the flag alone; and the payload of a request
\* already issued never changes afterwards, checkbox changes included.
C24_FlagAsAtSubmit ==
    /\ downloadImages = FALSE
    /\ [][/\ downloadImages' # downloadImages
               => (downloadImages' = ~downloadImages /\ reqs' = reqs)
          /\ Len(reqs') > Len(reqs)
               => /\ reqs'[Len(reqs')].payload.include_images
                       = BoolString(downloadImages)
                  /\ downloadImages' = downloadImages
          /\ \A i \in 1..Len(reqs) : reqs'[i].payload = reqs[i].payload
          /\ \A i \in 1..Len(reqs') :
                reqs'[i].payload.include_images
                    = BoolString(submitted'[i].downloadImages)]_vars

\* C24 witness: a request sent with the flag on is still in flight after the
\* checkbox was changed back, and a later request was sent with the flag off.
C24_Witness ==
    /\ Len(reqs) = 2
    /\ reqs[1].pc = "fetch"
    /\ reqs[1].payload.include_images = "true"
    /\ reqs[2].payload.include_images = "false"
    /\ downloadImages = FALSE

====
